---- MODULE Spec2Model ----
(***************************************************************************)
(* Model of source/arm11/oaf_video.c (open_agb_firm): the GBA video        *)
(* pipeline.  The caller of OAF_videoInit / OAF_videoExit ("main") runs    *)
(* concurrently with the tasks gbaGfxHandler, one created by every Init    *)
(* and alive until its waitForEvent fails.  The capture unit, the command  *)
(* processor (P3D) and the transfer engine (PPF) are hardware that         *)
(* advances on its own.                                                    *)
(***************************************************************************)
EXTENDS Integers, FiniteSets, Sequences, TLC

\* ------------------------------------------------------------------ bounds
MaxFrames == 2    \* frame-ready signals the capture unit raises in a behaviour
MaxInits  == 2    \* calls of OAF_videoInit in a behaviour, each creating a task
MaxScaler == 3    \* g_oafConfig.scaler is drawn from 0..MaxScaler
MaxContrast == 2  \* g_oafConfig.contrast is drawn from 0..MaxContrast

\* ------------------------------------------------------- program constants
alignment == 128  \* 0x80, dumpFrameTex
LutSize == 256    \* iterations of the loop of adjustGammaTableForGba

Scalers == 0..MaxScaler

\* Key masks are modelled as the set of bits that are set: `|` is union,
\* `== mask` is set equality and `!= 0` is non-emptiness.
KEY_Y      == {"Y"}
KEY_SELECT == {"SELECT"}
KEY_A      == {"A"}
HeldMasks  == { {}, KEY_Y, KEY_SELECT, KEY_Y \cup KEY_SELECT,
                KEY_Y \cup KEY_SELECT \cup KEY_A }
DownMasks  == { {}, KEY_Y }

\* Results of the storage collaborator.
RES_OK         == "RES_OK"
RES_FR_NO_FILE == "RES_FR_NO_FILE"
RES_FR_DISK_ERR == "RES_FR_DISK_ERR"
ReadResults  == {RES_OK, RES_FR_NO_FILE, RES_FR_DISK_ERR}
WriteResults == {RES_OK, RES_FR_DISK_ERR}

\* Init number n creates task n, which waits on event n.
Tasks == 1..MaxInits

VARIABLES
    \* configuration and function-static data
    scaler,        \* g_oafConfig.scaler
    inited,        \* static bool inited (gbaGfxHandler)
    bmpHeaders,    \* static BmpV1WithMasks bmpHeaders (dumpFrameTex)
    matrix,        \* static s16 matrix[12 * 8] (setupFrameCapture)
    \* capture unit and frame-ready events
    capCfg,        \* LgyCapCfg handed to LGYCAP_init
    capInited,     \* LGYCAP_init done and LGYCAP_deinit not yet
    capRunning,    \* the capture unit is capturing
    evAlive,       \* evAlive[n]: the event returned by the n-th LGYCAP_init exists
    evSignaled,    \* evSignaled[n]: that event is set
    gpuListPatch,  \* scaler the GPU command lists were patched for
    setupRes,      \* local res of setupFrameCapture (result of fsQuickRead)
    logged,        \* setupFrameCapture printed its error message
    \* gamma table
    gammaCfg,      \* g_oafConfig.gbaGamma, lcdGamma, contrast, brightness
    lroundNonFinite, \* what lroundf returns for a non-finite argument
    lutWrites,     \* loop counter i of adjustGammaTableForGba
    lut,           \* words written to pdc0.color_lut_data by the last call
    \* graphics hardware
    swap,          \* index of the buffer designated front (visible)
    p3d,           \* contexts whose command list is being processed
    ppf,           \* display transfers in flight
    bufHdr,        \* bufHdr[b]: the first bytes of presentation buffer b
    \* main context
    mpc,           \* position of the caller of OAF_videoInit/OAF_videoExit
    borderBuf,     \* local of OAF_videoInit
    borderRes,     \* outcome of reading border.bgr, of the pipeline that is up
    borderXfers,   \* border transfers issued for the pipeline that is up
    \* gbaGfxHandler / dumpFrameTex, per task
    tpc,           \* position of the task
    list,          \* command list submitted at line 169 and not yet waited for
    held, down,    \* hidKeysHeld(), hidKeysDown() of the current iteration
    tmpBuf,        \* local of dumpFrameTex
    fileSize,      \* local of dumpFrameTex
    res,           \* result of fsQuickWrite
    file,          \* file[t]: the screenshot task t hands to storage
    \* history
    nInits,        \* calls of LGYCAP_init so far
    nRaised,       \* frame-ready signals raised so far
    nProcessed,    \* successful waitForEvent returns so far
    nSwaps,        \* calls of GFX_swapBuffers so far
    iter,          \* iter[t]: signals processed by task t
    raisedSinceClear \* raisedSinceClear[n]: event n was set after its last clearEvent

vars == << scaler, inited, bmpHeaders, matrix, capCfg, capInited, capRunning,
           evAlive, evSignaled, gpuListPatch, setupRes, logged, gammaCfg,
           lroundNonFinite, lutWrites, lut, swap, p3d, ppf, bufHdr,
           mpc, borderBuf, borderRes, borderXfers, tpc, list, held, down,
           tmpBuf, fileSize, res, file, nInits, nRaised, nProcessed, nSwaps, iter,
           raisedSinceClear >>

staticVars == << inited, bmpHeaders, matrix >>
capVars    == << capCfg, capInited, capRunning >>
setupVars  == << gpuListPatch, setupRes, logged >>
lutVars    == << gammaCfg, lroundNonFinite, lutWrites, lut >>
borderVars == << borderBuf, borderRes, borderXfers >>
evVars     == << evAlive, evSignaled, raisedSinceClear >>
gfxVars    == << swap, p3d, ppf, bufHdr >>
dumpVars   == << tmpBuf, fileSize, res, file >>
taskVars   == << tpc, list, held, down, iter, nProcessed, nSwaps >>
\* What a step of the main context or of the hardware leaves alone.
mainVars   == << scaler, setupVars, lutVars, mpc, borderVars, nInits >>

\* ---------------------------------------------------------------- helpers

\* GFX_getBuffer(GFX_LCD_TOP, GFX_SIDE_LEFT): the "currently hidden" (line
\* 109), "currently invisible" (line 249) buffer, the one not designated front.
GFX_getBuffer == 1 - swap

\* The header as compiled in (dumpFrameTex, lines 68-93).
DefaultBmpHeaders ==
    [ fileSize  |-> alignment + 240 * 160 * 2,
      width     |-> 240,
      height    |-> -160,
      imageSize |-> 240 * 160 * 2 ]

\* Lines 95-106 of dumpFrameTex: the patched header and the local fileSize.
PatchedBmpHeaders(s, hdr) ==
    IF s > 1
    THEN [ fileSize  |-> alignment + 360 * 240 * 2,
           width     |-> 360,
           height    |-> -240,
           imageSize |-> 360 * 240 * 2 ]
    ELSE hdr

DumpFileSize(s) ==
    IF s > 1 THEN alignment + 360 * 240 * 2 ELSE alignment + 240 * 160 * 2

\* Lines 206-210 of setupFrameCapture: fsQuickRead into the static matrix.
\* A successful read replaces the coefficients; a missing file leaves them;
\* after any other failure the contents of the destination are whatever the
\* storage layer left there.
MatrixAfterRead(m, r) ==
    CASE r = RES_OK         -> {"override"}
      [] r = RES_FR_NO_FILE -> {m}
      [] OTHER              -> {m, "partial"}

\* A configuration that takes only mode 0 for 240x160.
LgyCapCfg_ScaledFromOne(s, m) ==
    LET is240x160 == s < 1 IN
    [ swizzle |-> TRUE,
      rot     |-> "NONE",
      hscale  |-> ~is240x160,
      vscale  |-> ~is240x160,
      fmt     |-> "A1BGR5",
      w       |-> IF is240x160 THEN 240 ELSE 360,
      h       |-> IF is240x160 THEN 160 ELSE 240,
      irq     |-> 0,
      vLen    |-> 6,
      vPatt   |-> 27,
      hLen    |-> 6,
      hPatt   |-> 27,
      vMatrix |-> m,
      hMatrix |-> m ]

\* Lines 186 and 212-222 of setupFrameCapture.
LgyCapCfg(s, m) ==
    LET is240x160 == s < 2 IN
    [ swizzle |-> TRUE,
      rot     |-> "NONE",
      hscale  |-> ~is240x160,
      vscale  |-> ~is240x160,
      fmt     |-> "A1BGR5",
      w       |-> IF is240x160 THEN 240 ELSE 360,
      h       |-> IF is240x160 THEN 160 ELSE 240,
      irq     |-> 0,
      vLen    |-> 6,
      vPatt   |-> 27,
      hLen    |-> 6,
      hPatt   |-> 27,
      vMatrix |-> m,
      hMatrix |-> m ]

NoCfg == [ swizzle |-> FALSE, rot |-> "none", hscale |-> FALSE,
           vscale |-> FALSE, fmt |-> "none", w |-> 0, h |-> 0, irq |-> 0,
           vLen |-> 0, vPatt |-> 0, hLen |-> 0, hPatt |-> 0,
           vMatrix |-> "none", hMatrix |-> "none" ]

\* The first bytes of a buffer that hold pixel data, not a header.
NoHdr == [ fileSize |-> 0, width |-> 0, height |-> 0, imageSize |-> 0 ]

NoFile == [ size |-> 0, hdr |-> DefaultBmpHeaders, written |-> FALSE ]

\* The bytes of border.bgr, which are not a header either.
BorderBytes == [ fileSize |-> -1, width |-> -1, height |-> -1, imageSize |-> -1 ]

\* The contexts that use the graphics hardware.
InitCtx    == << "init", 0 >>
TaskCtx(t) == << "task", t >>

\* A display transfer: who issued it, which presentation buffer it touches and
\* whether it writes ("w") or reads ("r") that buffer.
Job(c, k, b, a) == [ ctx |-> c, kind |-> k, buf |-> b, acc |-> a ]

\* GFX_waitForPPF() and GFX_waitForP3D() take no argument: they wait for the
\* one transfer engine and the one command processor, whoever started them.
PpfBusy == ppf # {}
P3dBusy == p3d # {}

\* The writes into a presentation buffer that are under way: the transfers of
\* lines 171 and 113, the memcpy of line 115 and the file read of line 251.
BufferWrites ==
    { [ ctx |-> j.ctx, buf |-> j.buf ] : j \in { k \in ppf : k.acc = "w" } }
    \cup { [ ctx |-> TaskCtx(t), buf |-> tmpBuf[t] ] :
             t \in { u \in Tasks : tpc[u] = "d_memcpy" } }
    \cup (IF mpc \in {"b_read", "b_data"}
          THEN { [ ctx |-> InitCtx, buf |-> borderBuf ] } ELSE {})

\* ------------------------------------------------------------ gamma table

\* The gamma parameters of g_oafConfig.  gbaGamma and lcdGamma are 1, so that
\* both powf calls of the loop are the identity; contrast is a small integer
\* and brightness is given in 255ths (the field brightness255 is
\* g_oafConfig.brightness * 255).  Contrast 0 makes brightness / contrast
\* (line 45) and with it every powf result of the loop non-finite.
Brightnesses == {-64, 0, 64}
GammaCfgs ==
    [ gbaGamma : {1}, lcdGamma : {1}, contrast : 0..MaxContrast,
      brightness255 : Brightnesses ]
NeutralGamma ==
    [ gbaGamma |-> 1, lcdGamma |-> 1, contrast |-> 1, brightness255 |-> 0 ]

\* lroundf of a non-finite argument returns an unspecified value; these are
\* the values of long the model draws it from.
S32Samples == {-2147483647, -1, 0, 255, 256, 2147483647}

clamp_s32(x, lo, hi) == IF x < lo THEN lo ELSE IF x > hi THEN hi ELSE x

\* x << n and a | b on u32.  The operands of line 57 are below 2^8, so no
\* bit is shifted out of the word.
Shl(x, n) == x * 2^n

RECURSIVE BitOr(_, _)
BitOr(a, b) ==
    IF a = 0 THEN b
    ELSE IF b = 0 THEN a
    ELSE (IF a % 2 = 1 \/ b % 2 = 1 THEN 1 ELSE 0)
         + 2 * BitOr(a \div 2, b \div 2)

\* Lines 51-54: lroundf(powf(contrastInTargetGamma * adjusted, lcdGamma) * 255)
\* for index i.  With both gammas 1 and a contrast c > 0 this is
\* lroundf(c * (i / 255 + b / c) * 255) = c * i + 255 * b; u is what lroundf
\* returns when its argument is not finite.
RoundedLevel(cfg, i, u) ==
    IF cfg.gbaGamma = 1 /\ cfg.lcdGamma = 1 /\ cfg.contrast > 0
    THEN cfg.contrast * i + cfg.brightness255
    ELSE u

\* A word that leaves the blue channel out.
PackGrey_NoBlue(v) == BitOr(Shl(v, 16), Shl(v, 8))

\* Line 57: res<<16 | res<<8 | res.
PackGrey(v) == BitOr(BitOr(Shl(v, 16), Shl(v, 8)), v)

\* Lines 51-57: the word written for index i.
LutWord(cfg, i, u) == PackGrey(clamp_s32(RoundedLevel(cfg, i, u), 0, 255))

\* Lines 48-58: all words of one call, in the order written.
GammaTable(cfg, u) == [ k \in 1..LutSize |-> LutWord(cfg, k - 1, u) ]

\* The tables of all configurations, computed once.
GammaTables ==
    { [ cfg |-> c, u |-> u, words |-> GammaTable(c, u) ] :
        c \in GammaCfgs, u \in S32Samples }

GammaTableOf(cfg, u) ==
    (CHOOSE t \in GammaTables : t.cfg = cfg /\ t.u = u).words

\* ------------------------------------------------------------------- Init

InitFor(cfg, u) ==
    /\ scaler = 0
    /\ inited = FALSE
    /\ bmpHeaders = DefaultBmpHeaders
    /\ matrix = "default"
    /\ capCfg = NoCfg
    /\ capInited = FALSE
    /\ capRunning = FALSE
    /\ evAlive = [ n \in Tasks |-> FALSE ]
    /\ evSignaled = [ n \in Tasks |-> FALSE ]
    /\ raisedSinceClear = [ n \in Tasks |-> FALSE ]
    /\ gpuListPatch = 0
    /\ setupRes = "none"
    /\ logged = FALSE
    /\ gammaCfg = cfg
    /\ lroundNonFinite = u
    /\ lutWrites = 0
    /\ lut = << >>
    /\ swap = 0
    /\ p3d = {}
    /\ ppf = {}
    /\ bufHdr = [ b \in 0..1 |-> NoHdr ]
    /\ mpc = "off"
    /\ borderBuf = 0
    /\ borderRes = "none"
    /\ borderXfers = 0
    /\ tpc = [ t \in Tasks |-> "none" ]
    /\ list = [ t \in Tasks |-> "none" ]
    /\ held = [ t \in Tasks |-> {} ]
    /\ down = [ t \in Tasks |-> {} ]
    /\ tmpBuf = [ t \in Tasks |-> 0 ]
    /\ fileSize = [ t \in Tasks |-> 0 ]
    /\ res = [ t \in Tasks |-> "none" ]
    /\ file = [ t \in Tasks |-> NoFile ]
    /\ iter = [ t \in Tasks |-> 0 ]
    /\ nInits = 0
    /\ nRaised = 0
    /\ nProcessed = 0
    /\ nSwaps = 0

\* The state before the first OAF_videoInit, with the default gamma
\* parameters.
Init == InitFor(NeutralGamma, 0)

\* The same state for every gamma configuration.
GammaInit == \E cfg \in GammaCfgs, u \in S32Samples : InitFor(cfg, u)

\* ----------------------------------------------------------- main context

\* OAF_videoInit, lines 238-239 up to the blocking fsQuickRead of line 206: s
\* is g_oafConfig.scaler at the call.  The function tests nothing, so it is
\* called whether or not an earlier pipeline was shut down and whether or not
\* an earlier task is still alive.
OAF_videoInit_Start(s) ==
    /\ mpc \in {"off", "running"}
    /\ nInits < MaxInits
    /\ scaler' = s
    /\ mpc' = "m_read"
    /\ lutWrites' = 0
    /\ lut' = << >>
    /\ borderBuf' = 0
    /\ borderRes' = "none"
    /\ borderXfers' = 0
    /\ UNCHANGED << staticVars, capVars, evVars, setupVars, gammaCfg,
                    lroundNonFinite, gfxVars, taskVars, dumpVars, nInits,
                    nRaised >>

\* setupFrameCapture(scaler), lines 206-224: the read of
\* gba_scaler_matrix.bin returns r; LGYCAP_init creates a new frame-ready
\* event and leaves the capture unit initialised with the configuration and
\* capturing.
setupFrameCapture(s, r) ==
    /\ setupRes' = r
    /\ logged' = (r # RES_OK /\ r # RES_FR_NO_FILE)
    /\ matrix' \in MatrixAfterRead(matrix, r)
    /\ capCfg' = LgyCapCfg(s, matrix')
    /\ capInited' = TRUE
    /\ capRunning' = TRUE
    /\ evAlive' = [evAlive EXCEPT ![nInits + 1] = TRUE]
    /\ UNCHANGED << evSignaled, raisedSinceClear >>

\* OAF_videoInit, lines 239-241: setupFrameCapture returns, the command lists
\* are patched and the task is created with the new event as its argument.
OAF_videoInit_Setup(r) ==
    /\ mpc = "m_read"
    /\ setupFrameCapture(scaler, r)
    /\ gpuListPatch' = scaler
    /\ tpc' = [tpc EXCEPT ![nInits + 1] = "wait"]
    /\ nInits' = nInits + 1
    /\ mpc' = "gamma"
    /\ UNCHANGED << scaler, inited, bmpHeaders, lutVars, gfxVars, borderVars,
                    list, held, down, iter, nProcessed, nSwaps, dumpVars,
                    nRaised >>

\* Lines 48-58, one iteration of the loop of adjustGammaTableForGba: the
\* word for index i is written to the index-implicit register.
adjustGammaTableForGba_Write ==
    /\ mpc = "gamma"
    /\ lutWrites < LutSize
    /\ lut' = Append(lut, LutWord(gammaCfg, lutWrites, lroundNonFinite))
    /\ lutWrites' = lutWrites + 1
    /\ UNCHANGED << scaler, staticVars, capVars, evVars, setupVars, gammaCfg,
                    lroundNonFinite, gfxVars, mpc, borderVars, taskVars,
                    dumpVars, nInits, nRaised >>

\* Lines 48 and 59: the loop ends at i = 256 and the function returns to
\* OAF_videoInit.
adjustGammaTableForGba_Return ==
    /\ mpc = "gamma"
    /\ lutWrites = LutSize
    /\ mpc' = "border"
    /\ setupRes' = "none"
    /\ logged' = FALSE
    /\ UNCHANGED << gpuListPatch, scaler, staticVars, capVars, evVars, lutVars,
                    gfxVars, borderVars, taskVars, dumpVars, nInits, nRaised >>

\* OAF_videoInit, line 244: adjustGammaTableForGba as one step, all 256
\* writes and the return.  The locals of the finished setupFrameCapture call
\* are dropped here.
OAF_videoInit_Gamma ==
    /\ mpc = "gamma"
    /\ lut' = GammaTableOf(gammaCfg, lroundNonFinite)
    /\ lutWrites' = LutSize
    /\ mpc' = "border"
    /\ setupRes' = "none"
    /\ logged' = FALSE
    /\ UNCHANGED << gpuListPatch, scaler, staticVars, capVars, evVars,
                    gammaCfg, lroundNonFinite, gfxVars, borderVars, taskVars,
                    dumpVars, nInits, nRaised >>

\* An Init that loads the border in both native modes.
BorderWanted_Native(s) == s < 2

\* Line 247: borders are loaded for scaler mode 0 only.
BorderWanted(s) == s = 0

\* OAF_videoInit, lines 247-251: take the hidden buffer and start reading
\* border.bgr into it.
OAF_videoInit_Border ==
    /\ mpc = "border"
    /\ IF BorderWanted(scaler)
       THEN /\ borderBuf' = GFX_getBuffer
            /\ mpc' = "b_read"
       ELSE /\ mpc' = "running"
            /\ UNCHANGED borderBuf
    /\ UNCHANGED << borderRes, borderXfers >>
    /\ UNCHANGED << scaler, staticVars, capVars, evVars, setupVars,
                    lutVars, gfxVars, taskVars, dumpVars, nInits, nRaised >>

\* Line 251, inside fsQuickRead: the storage layer writes file data into
\* borderBuf, from its first byte on.
OAF_videoInit_BorderData ==
    /\ mpc = "b_read"
    /\ bufHdr' = [bufHdr EXCEPT ![borderBuf] = BorderBytes]
    /\ mpc' = "b_data"
    /\ UNCHANGED << scaler, staticVars, capVars, evVars, setupVars, lutVars,
                    swap, p3d, ppf, borderVars, taskVars, dumpVars,
                    nInits, nRaised >>

\* An Init that transfers the border whatever the read returned.
OAF_videoInit_BorderRead_Unchecked(r) ==
    /\ mpc \in {"b_read", "b_data"}
    /\ r = RES_OK => mpc = "b_data"
    /\ borderRes' = (IF r = RES_OK THEN "ok" ELSE "failed")
    /\ ppf' = ppf \cup { Job(InitCtx, "border", borderBuf, "r") }
    /\ borderXfers' = borderXfers + 1
    /\ mpc' = "b_wait"
    /\ UNCHANGED << scaler, staticVars, capVars, evVars, setupVars,
                    lutVars, swap, p3d, bufHdr, borderBuf,
                    taskVars, dumpVars, nInits, nRaised >>

\* OAF_videoInit, lines 251-255: the read returns r, a successful one after
\* it has written the destination, a failed one with or without having
\* written any of it; on success the border is transferred from borderBuf to
\* the GPU render buffer.
OAF_videoInit_BorderRead(r) ==
    /\ mpc \in {"b_read", "b_data"}
    /\ r = RES_OK => mpc = "b_data"
    /\ borderRes' = (IF r = RES_OK THEN "ok" ELSE "failed")
    /\ IF r = RES_OK
       THEN /\ ppf' = ppf \cup { Job(InitCtx, "border", borderBuf, "r") }
            /\ borderXfers' = borderXfers + 1
            /\ mpc' = "b_wait"
            /\ UNCHANGED borderBuf
       ELSE /\ mpc' = "running"
            /\ borderBuf' = 0
            /\ UNCHANGED << ppf, borderXfers >>
    /\ UNCHANGED << scaler, staticVars, capVars, evVars, setupVars,
                    lutVars, swap, p3d, bufHdr, taskVars,
                    dumpVars, nInits, nRaised >>

\* OAF_videoInit, lines 256-260: GFX_waitForPPF returns when the transfer
\* engine is idle, then Init returns the event; the local borderBuf is gone
\* with the return.
OAF_videoInit_BorderWait ==
    /\ mpc = "b_wait"
    /\ ~PpfBusy
    /\ mpc' = "running"
    /\ borderBuf' = 0
    /\ UNCHANGED << scaler, staticVars, capVars, evVars, setupVars,
                    lutVars, gfxVars, borderRes, borderXfers, taskVars,
                    dumpVars, nInits, nRaised >>

\* OAF_videoExit, lines 263-268: the function tests nothing, so it is called
\* whenever the caller is not inside OAF_videoInit, also twice in a row and
\* before any Init.  LGYCAP_deinit stops the capture unit and deletes its
\* frame-ready event (comment of lines 265-266).  The border record of the
\* pipeline that is shut down is dropped.
OAF_videoExit ==
    /\ mpc \in {"off", "running"}
    /\ capInited' = FALSE
    /\ capRunning' = FALSE
    /\ evAlive' = [ n \in Tasks |-> IF n = nInits THEN FALSE ELSE evAlive[n] ]
    /\ evSignaled' = [ n \in Tasks |->
                         IF n = nInits THEN FALSE ELSE evSignaled[n] ]
    /\ mpc' = "off"
    /\ borderRes' = "none"
    /\ borderXfers' = 0
    /\ UNCHANGED << scaler, staticVars, capCfg, raisedSinceClear, setupVars,
                    lutVars, gfxVars, borderBuf, taskVars, dumpVars, nInits,
                    nRaised >>

\* --------------------------------------------------------------- hardware

\* The capture unit completes a frame and sets the frame-ready event it was
\* initialised with.
FrameReady ==
    /\ capRunning
    /\ nInits > 0
    /\ evAlive[nInits]
    /\ nRaised < MaxFrames
    /\ evSignaled' = [evSignaled EXCEPT ![nInits] = TRUE]
    /\ raisedSinceClear' = [raisedSinceClear EXCEPT ![nInits] = TRUE]
    /\ nRaised' = nRaised + 1
    /\ UNCHANGED << staticVars, capVars, evAlive, gfxVars, mainVars,
                    taskVars, dumpVars >>

\* The command processor finishes a submitted list.
P3DComplete ==
    /\ \E c \in p3d : p3d' = p3d \ {c}
    /\ UNCHANGED << staticVars, capVars, evVars, swap, ppf, bufHdr,
                    mainVars, taskVars, dumpVars, nRaised >>

\* The transfer engine finishes a display transfer.
PPFComplete ==
    /\ \E j \in ppf : ppf' = ppf \ {j}
    /\ UNCHANGED << staticVars, capVars, evVars, swap, p3d, bufHdr,
                    mainVars, taskVars, dumpVars, nRaised >>

\* ------------------------------------------------- gbaGfxHandler (the task)

\* A loop that ignores the result of waitForEvent and processes a frame.
OnWaitFailed_Continue == "clear"

\* A loop that waits again after a failed waitForEvent.
OnWaitFailed_Retry == "wait"

\* Lines 140 and 181: a failed waitForEvent breaks out of the loop to
\* taskExit().
OnWaitFailed == "terminated"

\* Line 140: waitForEvent(event), on the event the task was created with.  It
\* fails once the event has been deleted and returns KRES_OK once the event
\* is set; otherwise the task stays blocked.  A task that leaves the loop has
\* no locals any more.
gbaGfxHandler_Wait(t) ==
    /\ tpc[t] = "wait"
    /\ IF ~evAlive[t]
       THEN /\ tpc' = [tpc EXCEPT ![t] = OnWaitFailed]
            /\ iter' = [iter EXCEPT ![t] =
                          IF OnWaitFailed = "terminated" THEN 0 ELSE @]
            /\ UNCHANGED << list, nProcessed >>
       ELSE /\ evSignaled[t]
            /\ tpc' = [tpc EXCEPT ![t] = "clear"]
            /\ iter' = [iter EXCEPT ![t] = @ + 1]
            /\ nProcessed' = nProcessed + 1
            /\ UNCHANGED list
    /\ UNCHANGED << mainVars, staticVars, capVars, evVars, gfxVars, held,
                    down, nSwaps, dumpVars, nRaised >>

\* Line 141: clearEvent(event).
gbaGfxHandler_Clear(t) ==
    /\ tpc[t] = "clear"
    /\ evSignaled' = [evSignaled EXCEPT ![t] = FALSE]
    /\ raisedSinceClear' = [raisedSinceClear EXCEPT ![t] = FALSE]
    /\ tpc' = [tpc EXCEPT ![t] = "submit"]
    /\ UNCHANGED << mainVars, staticVars, capVars, evAlive, gfxVars, list,
                    held, down, iter, nProcessed, nSwaps, dumpVars, nRaised >>

\* Lines 154-169: choose the list by the static flag, set the flag and submit
\* the list to the command processor.
gbaGfxHandler_Submit(t) ==
    /\ tpc[t] = "submit"
    /\ list' = [list EXCEPT ![t] =
                  IF inited = FALSE THEN "gbaGpuInitList" ELSE "gbaGpuList2"]
    /\ inited' = TRUE
    /\ p3d' = p3d \cup { TaskCtx(t) }
    /\ tpc' = [tpc EXCEPT ![t] = "waitP3D"]
    /\ UNCHANGED << mainVars, bmpHeaders, matrix, capVars, evVars, swap,
                    ppf, bufHdr, held, down, iter, nProcessed,
                    nSwaps, dumpVars, nRaised >>

\* A handler that does not wait for the command list to complete.
gbaGfxHandler_WaitP3D_NoWait(t) ==
    /\ tpc[t] = "waitP3D"
    /\ tpc' = [tpc EXCEPT ![t] = "transfer"]
    /\ list' = [list EXCEPT ![t] = "none"]
    /\ UNCHANGED << mainVars, staticVars, capVars, evVars, gfxVars, held,
                    down, iter, nProcessed, nSwaps, dumpVars, nRaised >>

\* Line 170: GFX_waitForP3D().  list[t] is the list the task is waiting for.
gbaGfxHandler_WaitP3D(t) ==
    /\ tpc[t] = "waitP3D"
    /\ ~P3dBusy
    /\ tpc' = [tpc EXCEPT ![t] = "transfer"]
    /\ list' = [list EXCEPT ![t] = "none"]
    /\ UNCHANGED << mainVars, staticVars, capVars, evVars, gfxVars, held,
                    down, iter, nProcessed, nSwaps, dumpVars, nRaised >>

\* Lines 171-172: GX_displayTransfer from the render buffer into the buffer
\* GFX_getBuffer returns, from its first byte on.
gbaGfxHandler_Transfer(t) ==
    /\ tpc[t] = "transfer"
    /\ ppf' = ppf \cup { Job(TaskCtx(t), "frame", GFX_getBuffer, "w") }
    /\ bufHdr' = [bufHdr EXCEPT ![GFX_getBuffer] = NoHdr]
    /\ tpc' = [tpc EXCEPT ![t] = "waitPPF"]
    /\ UNCHANGED << mainVars, staticVars, capVars, evVars, swap, p3d, list, held, down, iter, nProcessed, nSwaps, dumpVars,
                    nRaised >>

\* Line 173: GFX_waitForPPF().
gbaGfxHandler_WaitPPF(t) ==
    /\ tpc[t] = "waitPPF"
    /\ ~PpfBusy
    /\ tpc' = [tpc EXCEPT ![t] = "swap"]
    /\ UNCHANGED << mainVars, staticVars, capVars, evVars, gfxVars, list,
                    held, down, iter, nProcessed, nSwaps, dumpVars, nRaised >>

\* Line 174: GFX_swapBuffers().
gbaGfxHandler_Swap(t) ==
    /\ tpc[t] = "swap"
    /\ swap' = 1 - swap
    /\ nSwaps' = nSwaps + 1
    /\ tpc' = [tpc EXCEPT ![t] = "keys"]
    /\ UNCHANGED << mainVars, staticVars, capVars, evVars, p3d,
                    ppf, bufHdr, list, held, down, iter, nProcessed, dumpVars,
                    nRaised >>

\* Line 177, the two reads of the input state.
gbaGfxHandler_Keys(t, h, d) ==
    /\ tpc[t] = "keys"
    /\ held' = [held EXCEPT ![t] = h]
    /\ down' = [down EXCEPT ![t] = d]
    /\ tpc' = [tpc EXCEPT ![t] = "trigger"]
    /\ UNCHANGED << mainVars, staticVars, capVars, evVars, gfxVars, list,
                    iter, nProcessed, nSwaps, dumpVars, nRaised >>

\* A trigger that tests the two keys with a mask instead of comparing.
ScreenshotTrigger_Masked(h, d) == (KEY_Y \cup KEY_SELECT) \subseteq h /\ d # {}

\* Line 177, the condition.
ScreenshotTrigger(h, d) == h = (KEY_Y \cup KEY_SELECT) /\ d # {}

\* A loop that acknowledges the event at the end of the iteration as well.
gbaGfxHandler_Trigger_Clearing(t) ==
    /\ tpc[t] = "trigger"
    /\ tpc' = [tpc EXCEPT ![t] =
                 IF ScreenshotTrigger(held[t], down[t])
                 THEN "d_stop" ELSE "wait"]
    /\ held' = [held EXCEPT ![t] =
                  IF ScreenshotTrigger(held[t], down[t]) THEN @ ELSE {}]
    /\ down' = [down EXCEPT ![t] =
                  IF ScreenshotTrigger(held[t], down[t]) THEN @ ELSE {}]
    /\ evSignaled' = [evSignaled EXCEPT ![t] = FALSE]
    /\ UNCHANGED << mainVars, staticVars, capVars, evAlive, raisedSinceClear,
                    gfxVars, list, iter, nProcessed, nSwaps, dumpVars,
                    nRaised >>

\* Lines 177-179: call dumpFrameTex or go round the loop.  The two samples are
\* temporaries; they are kept into the entry of dumpFrameTex, where the state
\* shows the sample that caused the call, and dropped otherwise.
gbaGfxHandler_Trigger(t) ==
    /\ tpc[t] = "trigger"
    /\ tpc' = [tpc EXCEPT ![t] =
                 IF ScreenshotTrigger(held[t], down[t])
                 THEN "d_stop" ELSE "wait"]
    /\ held' = [held EXCEPT ![t] =
                  IF ScreenshotTrigger(held[t], down[t]) THEN @ ELSE {}]
    /\ down' = [down EXCEPT ![t] =
                  IF ScreenshotTrigger(held[t], down[t]) THEN @ ELSE {}]
    /\ UNCHANGED << mainVars, staticVars, capVars, evVars, gfxVars, list,
                    iter, nProcessed, nSwaps, dumpVars, nRaised >>

\* ------------------------------------------------------------ dumpFrameTex

\* Line 64: LGYCAP_stop(LGYCAP_DEV_TOP).
dumpFrameTex_Stop(t) ==
    /\ tpc[t] = "d_stop"
    /\ capRunning' = FALSE
    /\ held' = [held EXCEPT ![t] = {}]
    /\ down' = [down EXCEPT ![t] = {}]
    /\ tpc' = [tpc EXCEPT ![t] = "d_xfer"]
    /\ UNCHANGED << mainVars, staticVars, capCfg, capInited, evVars, gfxVars,
                    list, iter, nProcessed, nSwaps, dumpVars, nRaised >>

\* A serializer that swaps the buffers to get at the frame just presented.
dumpFrameTex_Transfer_Swapping(t) ==
    /\ tpc[t] = "d_xfer"
    /\ bmpHeaders' = PatchedBmpHeaders(scaler, bmpHeaders)
    /\ fileSize' = [fileSize EXCEPT ![t] = DumpFileSize(scaler)]
    /\ swap' = 1 - swap
    /\ tmpBuf' = [tmpBuf EXCEPT ![t] = 1 - swap']
    /\ ppf' = ppf \cup { Job(TaskCtx(t), "shot", 1 - swap', "w") }
    /\ tpc' = [tpc EXCEPT ![t] = "d_memcpy"]
    /\ UNCHANGED << mainVars, inited, matrix, capVars, evVars, p3d, bufHdr, list, held, down, iter, nProcessed, nSwaps,
                    res, file, nRaised >>

\* Lines 95-114: the locals are set from g_oafConfig.scaler as it is now, the
\* static header is patched for the scaled modes, the hidden buffer is taken
\* as tmpBuf and the transfer of the texture into it is started, 0x80 bytes
\* in: the first bytes of the buffer stay as they are.
dumpFrameTex_Transfer(t) ==
    /\ tpc[t] = "d_xfer"
    /\ bmpHeaders' = PatchedBmpHeaders(scaler, bmpHeaders)
    /\ fileSize' = [fileSize EXCEPT ![t] = DumpFileSize(scaler)]
    /\ tmpBuf' = [tmpBuf EXCEPT ![t] = GFX_getBuffer]
    /\ ppf' = ppf \cup { Job(TaskCtx(t), "shot", GFX_getBuffer, "w") }
    /\ tpc' = [tpc EXCEPT ![t] = "d_memcpy"]
    /\ UNCHANGED << mainVars, inited, matrix, capVars, evVars, swap,
                    p3d, bufHdr, list, held, down, iter,
                    nProcessed, nSwaps, res, file, nRaised >>

\* Line 115: memcpy(tmpBuf, &bmpHeaders, sizeof(bmpHeaders)).
dumpFrameTex_Memcpy(t) ==
    /\ tpc[t] = "d_memcpy"
    /\ bufHdr' = [bufHdr EXCEPT ![tmpBuf[t]] = bmpHeaders]
    /\ tpc' = [tpc EXCEPT ![t] = "d_waitPPF"]
    /\ UNCHANGED << mainVars, staticVars, capVars, evVars, swap, p3d, ppf, list, held, down, iter, nProcessed, nSwaps,
                    dumpVars, nRaised >>

\* Line 116: GFX_waitForPPF().
dumpFrameTex_WaitPPF(t) ==
    /\ tpc[t] = "d_waitPPF"
    /\ ~PpfBusy
    /\ tpc' = [tpc EXCEPT ![t] = "d_write"]
    /\ UNCHANGED << mainVars, staticVars, capVars, evVars, gfxVars, list,
                    held, down, iter, nProcessed, nSwaps, dumpVars, nRaised >>

\* Lines 118-126, inside fsQuickWrite(fn, tmpBuf, fileSize): the storage
\* layer reads fileSize bytes from tmpBuf, as they are in the buffer then.
dumpFrameTex_WriteData(t) ==
    /\ tpc[t] = "d_write"
    /\ file' = [file EXCEPT ![t] = [ size |-> fileSize[t],
                                     hdr |-> bufHdr[tmpBuf[t]],
                                     written |-> FALSE ]]
    /\ tpc' = [tpc EXCEPT ![t] = "d_writing"]
    /\ UNCHANGED << mainVars, staticVars, capVars, evVars, gfxVars, list,
                    held, down, iter, nProcessed, nSwaps, tmpBuf, fileSize,
                    res, nRaised >>

\* Line 126: fsQuickWrite returns r.
dumpFrameTex_Write(t, r) ==
    /\ tpc[t] = "d_writing"
    /\ file' = [file EXCEPT ![t].written = (r = RES_OK)]
    /\ res' = [res EXCEPT ![t] = r]
    /\ tpc' = [tpc EXCEPT ![t] = "d_start"]
    /\ UNCHANGED << mainVars, staticVars, capVars, evVars, gfxVars, list,
                    held, down, iter, nProcessed, nSwaps, tmpBuf, fileSize,
                    nRaised >>

\* A serializer that restarts the capture unit only after a successful write.
dumpFrameTex_Start_OnlyOnSuccess(t) ==
    /\ tpc[t] = "d_start"
    /\ capRunning' = (res[t] = RES_OK)
    /\ file' = [file EXCEPT ![t] = NoFile]
    /\ tmpBuf' = [tmpBuf EXCEPT ![t] = 0]
    /\ fileSize' = [fileSize EXCEPT ![t] = 0]
    /\ tpc' = [tpc EXCEPT ![t] = "d_ret"]
    /\ UNCHANGED << mainVars, staticVars, capCfg, capInited, evVars, gfxVars,
                    list, held, down, iter, nProcessed, nSwaps, res, nRaised >>

\* Lines 129-131: LGYCAP_start(LGYCAP_DEV_TOP), return res; the other locals
\* are gone with the return.
dumpFrameTex_Start(t) ==
    /\ tpc[t] = "d_start"
    /\ capRunning' = TRUE
    /\ file' = [file EXCEPT ![t] = NoFile]
    /\ tmpBuf' = [tmpBuf EXCEPT ![t] = 0]
    /\ fileSize' = [fileSize EXCEPT ![t] = 0]
    /\ tpc' = [tpc EXCEPT ![t] = "d_ret"]
    /\ UNCHANGED << mainVars, staticVars, capCfg, capInited, evVars, gfxVars,
                    list, held, down, iter, nProcessed, nSwaps, res, nRaised >>

\* A caller that leaves the loop when the screenshot could not be written.
gbaGfxHandler_Dumped_Escalating(t) ==
    /\ tpc[t] = "d_ret"
    /\ res' = [res EXCEPT ![t] = "none"]
    /\ tpc' = [tpc EXCEPT ![t] = IF res[t] = RES_OK THEN "wait"
                                 ELSE "terminated"]
    /\ UNCHANGED << mainVars, staticVars, capVars, evVars, gfxVars, list,
                    held, down, iter, nProcessed, nSwaps, tmpBuf, fileSize,
                    file, nRaised >>

\* Lines 178-179: the caller drops the result of dumpFrameTex and goes round
\* the loop.
gbaGfxHandler_Dumped(t) ==
    /\ tpc[t] = "d_ret"
    /\ res' = [res EXCEPT ![t] = "none"]
    /\ tpc' = [tpc EXCEPT ![t] = "wait"]
    /\ UNCHANGED << mainVars, staticVars, capVars, evVars, gfxVars, list,
                    held, down, iter, nProcessed, nSwaps, tmpBuf, fileSize,
                    file, nRaised >>

\* ---------------------------------------------------------- specification

\* Task t, with the held-key mask drawn from H.
TaskStep(t, H) ==
    \/ gbaGfxHandler_Wait(t)
    \/ gbaGfxHandler_Clear(t)
    \/ gbaGfxHandler_Submit(t)
    \/ gbaGfxHandler_WaitP3D(t)
    \/ gbaGfxHandler_Transfer(t)
    \/ gbaGfxHandler_WaitPPF(t)
    \/ gbaGfxHandler_Swap(t)
    \/ \E h \in H, d \in DownMasks : gbaGfxHandler_Keys(t, h, d)
    \/ gbaGfxHandler_Trigger(t)
    \/ dumpFrameTex_Stop(t)
    \/ dumpFrameTex_Transfer(t)
    \/ dumpFrameTex_Memcpy(t)
    \/ dumpFrameTex_WaitPPF(t)
    \/ dumpFrameTex_WriteData(t)
    \/ \E r \in WriteResults : dumpFrameTex_Write(t, r)
    \/ dumpFrameTex_Start(t)
    \/ gbaGfxHandler_Dumped(t)

\* The main context, with g_oafConfig.scaler drawn from S and the read of
\* gba_scaler_matrix.bin returning one of R.
MainStep(S, R) ==
    \/ \E s \in S : OAF_videoInit_Start(s)
    \/ \E r \in R : OAF_videoInit_Setup(r)
    \/ OAF_videoInit_Gamma
    \/ OAF_videoInit_Border
    \/ OAF_videoInit_BorderData
    \/ \E r \in ReadResults : OAF_videoInit_BorderRead(r)
    \/ OAF_videoInit_BorderWait
    \/ OAF_videoExit

HardwareStep ==
    \/ FrameReady
    \/ P3DComplete
    \/ PPFComplete

\* The contexts running against each other, on a card without
\* gba_scaler_matrix.bin.
Next ==
    \/ MainStep(Scalers, {RES_FR_NO_FILE})
    \/ \E t \in Tasks : TaskStep(t, HeldMasks)
    \/ HardwareStep

Spec == Init /\ [][Next]_vars

\* The main context alone, for every result of its reads: the calls of
\* OAF_videoInit and OAF_videoExit while no frame arrives.
SetupNext == MainStep(Scalers, ReadResults) \/ PPFComplete

SetupSpec == Init /\ [][SetupNext]_vars

\* adjustGammaTableForGba write by write: one OAF_videoInit up to the return
\* of line 244, for every gamma configuration.
GammaNext ==
    \/ OAF_videoInit_Start(0)
    \/ OAF_videoInit_Setup(RES_FR_NO_FILE)
    \/ adjustGammaTableForGba_Write
    \/ adjustGammaTableForGba_Return

GammaSpec == GammaInit /\ [][GammaNext]_vars

\* The scheduler runs a ready task, and the hardware completes what was
\* submitted to it.  Scaler mode 0, the one with the border; no key held, or
\* the two keys of the screenshot.
FairKeys == { {}, KEY_Y \cup KEY_SELECT }

FairNext ==
    \/ MainStep({0}, {RES_FR_NO_FILE})
    \/ \E t \in Tasks : TaskStep(t, FairKeys)
    \/ HardwareStep

FairSpec ==
    /\ Init /\ [][FairNext]_vars
    /\ \A t \in Tasks : WF_vars(TaskStep(t, FairKeys))
    /\ WF_vars(P3DComplete)
    /\ WF_vars(PPFComplete)


\* ------------------------------------------------------------------ claims

\* C1: within one run of a task the first processed signal submits
\* gbaGpuInitList and every later one gbaGpuList2.  (iter[t] counts the
\* signals task t has processed; at "waitP3D" the list has just been
\* submitted.)
C1_FirstListAThenB ==
    \A t \in Tasks :
        tpc[t] = "waitP3D" =>
            list[t] = (IF iter[t] = 1 THEN "gbaGpuInitList" ELSE "gbaGpuList2")

\* C2: every write into a presentation buffer targets the buffer that is not
\* designated front while the write is under way.
C2_WritesTargetHiddenBuffer ==
    \A w \in BufferWrites : w.buf # swap

\* C3 as stated: only a task writes into the non-visible buffer, also while
\* OAF_videoInit is still running.
C3_TaskIsSoleWriter ==
    \A w \in BufferWrites : w.buf = GFX_getBuffer => w.ctx[1] = "task"

\* C3 as amended: a write into a presentation buffer is a task's, or it is
\* the border read of an OAF_videoInit that runs in scaler mode 0 and has
\* already created its task; outside that read only tasks write.
C3_WritersAreTaskOrBorderStaging ==
    /\ \A w \in BufferWrites :
          \/ w.ctx[1] = "task"
          \/ /\ w.ctx = InitCtx /\ scaler = 0 /\ mpc \in {"b_read", "b_data"}
             /\ nInits > 0 /\ tpc[nInits] # "none"
    /\ mpc \notin {"b_read", "b_data"} =>
          \A w \in BufferWrites : w.ctx[1] = "task"

C3_Witness ==
    /\ mpc = "b_data" /\ scaler = 0
    /\ [ ctx |-> InitCtx, buf |-> borderBuf ] \in BufferWrites
    /\ \E w \in BufferWrites : w.ctx[1] = "task" /\ w.buf = borderBuf

\* C4: one GFX_swapBuffers per processed signal and none elsewhere: the number
\* of swaps equals the number of signals whose iteration has passed line 174,
\* and its parity is the index of the front buffer.
PreSwapPcs == {"clear", "submit", "waitP3D", "transfer", "waitPPF", "swap"}

C4_OneSwapPerSignal ==
    /\ nSwaps = nProcessed - Cardinality({ t \in Tasks : tpc[t] \in PreSwapPcs })
    /\ swap = nSwaps % 2

C4_Witness ==
    /\ nInits = 2 /\ nProcessed = 2 /\ nSwaps = 2 /\ swap = 0
    /\ \E t \in Tasks : tpc[t] = "d_start"

\* C5: a failed wait takes the task out of its loop to termination, and a
\* terminated task takes no step: it submits nothing, transfers nothing,
\* swaps nothing, polls no input and neither starts nor stops the capture
\* unit, and nothing it issued is still in flight.
C5_WaitFailureTerminates ==
    /\ [][\A t \in Tasks :
             (tpc[t] = "wait" /\ ~evAlive[t] /\ tpc'[t] # tpc[t])
                 => tpc'[t] = "terminated"]_vars
    /\ [][\A t \in Tasks :
             tpc[t] = "terminated"
                 => /\ ~TaskStep(t, HeldMasks)
                    /\ tpc'[t] = "terminated"
                    /\ held'[t] = {} /\ down'[t] = {}
                    /\ list'[t] = "none" /\ file'[t] = NoFile]_vars
    /\ [](\A t \in Tasks :
             tpc[t] = "terminated"
                 => /\ ~evAlive[t] /\ TaskCtx(t) \notin p3d
                    /\ \A j \in ppf : j.ctx # TaskCtx(t))

C5_Witness ==
    \E t \in Tasks :
        tpc[t] = "terminated" /\ ~evAlive[t] /\ nSwaps >= 1 /\ inited

\* C6: once OAF_videoExit has run and with it the frame-ready event of a task
\* is deleted, that task reaches termination from wherever it was, and a
\* terminated task has no write into a presentation buffer under way.
C6_ExitTerminatesTask ==
    /\ \A t \in Tasks :
          (~evAlive[t] /\ tpc[t] \notin {"none", "terminated"})
              ~> (tpc[t] = "terminated")
    /\ [](\A t \in Tasks :
             tpc[t] = "terminated"
                 => \A w \in BufferWrites : w.ctx # TaskCtx(t))

\* A task terminated although Exit found it inside the serializer: the
\* capture unit was restarted after it had been deinitialised.
C6_Witness ==
    /\ mpc = "off" /\ capRunning /\ ~capInited
    /\ \E t \in Tasks : tpc[t] = "terminated"

\* C7: the only clearEvent is the one right after the wait, so a signal raised
\* after it is still set when the task next waits.
C7_NoSignalLost ==
    \A n \in Tasks : (evAlive[n] /\ raisedSinceClear[n]) => evSignaled[n]

C7_Witness ==
    \E t \in Tasks :
        /\ tpc[t] = "trigger" /\ iter[t] = 1
        /\ evAlive[t] /\ raisedSinceClear[t] /\ evSignaled[t]

\* C8: the serializer is entered exactly when, after the swap, the held mask
\* is KEY_Y|KEY_SELECT and the down mask is not zero.
C8_TriggerExact ==
    /\ [][\A t \in Tasks :
             (tpc[t] = "trigger" /\ tpc'[t] # "trigger")
                 => /\ tpc'[t] \in {"d_stop", "wait"}
                    /\ (tpc'[t] = "d_stop")
                          <=> (held[t] = {"Y", "SELECT"} /\ down[t] # {})]_vars
    /\ [][\A t \in Tasks :
             /\ (tpc'[t] = "d_stop" /\ tpc[t] # "d_stop") => tpc[t] = "trigger"
             /\ (tpc'[t] = "trigger" /\ tpc[t] # "trigger") => tpc[t] = "keys"
             /\ (tpc'[t] = "keys" /\ tpc[t] # "keys")
                   => tpc[t] = "swap" /\ swap' # swap]_vars

C8_Witness ==
    \E t \in Tasks :
        tpc[t] = "d_stop" /\ held[t] = {"Y", "SELECT"} /\ down[t] = {"Y"}

\* C9: every call of dumpFrameTex stops the capture unit before it issues the
\* screenshot transfer and starts it again after the file write, whatever the
\* write returned, so the capture unit has been restarted when the task is
\* back at its wait.
C9_CaptureRestarted ==
    /\ [][\A t \in Tasks :
             (tpc[t] = "d_stop" /\ tpc'[t] # tpc[t])
                 => tpc'[t] = "d_xfer" /\ ~capRunning']_vars
    /\ [][\A t \in Tasks :
             (\E j \in ppf' \ ppf : j.ctx = TaskCtx(t) /\ j.kind = "shot")
                 => tpc[t] = "d_xfer"]_vars
    /\ [][\A t \in Tasks :
             (tpc'[t] = "d_start" /\ tpc[t] # tpc'[t])
                 => tpc[t] = "d_writing" /\ file'[t].size > 0]_vars
    /\ [][\A t \in Tasks :
             (tpc[t] = "d_start" /\ tpc'[t] # tpc[t])
                 => tpc'[t] = "d_ret" /\ capRunning']_vars
    /\ [][\A t \in Tasks :
             (tpc'[t] = "wait" /\ tpc[t] \notin {"wait", "none", "trigger"})
                 => tpc[t] = "d_ret"]_vars

C9_Witness ==
    \E t \in Tasks :
        tpc[t] = "d_ret" /\ res[t] = RES_FR_DISK_ERR /\ capInited /\ capRunning

\* C10: whatever fsQuickWrite returned, dumpFrameTex goes on to restart the
\* capture unit and the task goes on to the next wait, with the inited flag
\* and the buffer roles as they were.
C10_WriteResultIgnored ==
    /\ [][\A t \in Tasks :
             (tpc[t] = "d_writing" /\ tpc'[t] # tpc[t])
                 => tpc'[t] = "d_start" /\ inited' = inited /\ swap' = swap]_vars
    /\ [][\A t \in Tasks :
             (tpc[t] = "d_start" /\ tpc'[t] # tpc[t])
                 => tpc'[t] = "d_ret" /\ inited' = inited /\ swap' = swap]_vars
    /\ [][\A t \in Tasks :
             (tpc[t] = "d_ret" /\ tpc'[t] # tpc[t])
                 => tpc'[t] = "wait" /\ inited' = inited /\ swap' = swap]_vars

C10_Witness ==
    \E t \in Tasks :
        /\ tpc[t] = "d_ret" /\ res[t] = RES_FR_DISK_ERR /\ capRunning
        /\ evAlive[t] /\ evSignaled[t] /\ inited /\ nSwaps = nProcessed

\* C11: every screenshot handed to storage has size 128 + w*h*2 and a header
\* whose fileSize, width, height and imageSize are 128 + w*h*2, w, -h and
\* w*h*2, where (w, h) is (240, 160) in scaler modes 0 and 1 and (360, 240)
\* in every mode from 2 on, whatever screenshots and Init calls came before.
\* (The scaler mode of a screenshot is the one dumpFrameTex reads at line 97;
\* the local fileSize keeps it.)
C11_HeaderMatchesGeometry ==
    /\ [][\A t \in Tasks :
             (tpc[t] = "d_xfer" /\ tpc'[t] = "d_memcpy")
                 => fileSize'[t] = 128 + (IF scaler < 2 THEN 240 * 160 * 2
                                         ELSE 360 * 240 * 2)]_vars
    /\ [](\A t \in Tasks :
             tpc[t] = "d_start" =>
                 LET w == IF fileSize[t] = 128 + 240 * 160 * 2
                          THEN 240 ELSE 360
                     h == IF fileSize[t] = 128 + 240 * 160 * 2
                          THEN 160 ELSE 240
                 IN  /\ file[t].size = 128 + w * h * 2
                     /\ file[t].hdr = [ fileSize  |-> 128 + w * h * 2,
                                        width     |-> w,
                                        height    |-> -h,
                                        imageSize |-> w * h * 2 ])

\* C12: the configuration setupFrameCapture hands to the capture unit is
\* 240x160 with neither horizontal nor vertical scaling for scaler modes 0
\* and 1, and 360x240 with both scalings for every mode from 2 on; the pixel
\* format and the other control fields are the same in both cases.
C12_CaptureGeometry ==
    (nInits > 0 /\ mpc # "m_read") =>
        /\ scaler < 2 => /\ capCfg.w = 240 /\ capCfg.h = 160
                         /\ ~capCfg.hscale /\ ~capCfg.vscale
        /\ scaler >= 2 => /\ capCfg.w = 360 /\ capCfg.h = 240
                          /\ capCfg.hscale /\ capCfg.vscale
        /\ capCfg.fmt = "A1BGR5" /\ capCfg.swizzle /\ capCfg.rot = "NONE"
        /\ capCfg.irq = 0
        /\ capCfg.vLen = 6 /\ capCfg.vPatt = 27
        /\ capCfg.hLen = 6 /\ capCfg.hPatt = 27

C12_Witness ==
    /\ nInits = 2 /\ mpc = "gamma" /\ scaler = 1 /\ capInited
    /\ capCfg.w = 240 /\ ~capCfg.hscale /\ gpuListPatch = 1
    /\ capCfg.vMatrix = "override"

\* C13: whenever setupFrameCapture found no override file, the vertical and
\* the horizontal matrix it handed to the capture unit are the compiled-in
\* defaults, also when an earlier call had found an override file.
C13_MissingFileMeansDefaults ==
    (mpc = "gamma" /\ setupRes = RES_FR_NO_FILE)
        => capCfg.vMatrix = "default" /\ capCfg.hMatrix = "default"

\* C14: whenever reading the override file failed with a result other than
\* "not found", setupFrameCapture has logged the error, the capture unit is
\* initialised, its event exists, and the matrices handed to it are the
\* compiled-in defaults.
C14_ReadErrorFallsBack ==
    (mpc = "gamma" /\ setupRes = RES_FR_DISK_ERR)
        => /\ logged /\ capInited /\ evAlive[nInits]
           /\ capCfg.vMatrix = "default" /\ capCfg.hMatrix = "default"

\* C15: the inited flag is false when a task starts, that is as long as the
\* task created by an OAF_videoInit has not processed its first signal.
C15_FlagFalseAtTaskStart ==
    \A t \in Tasks :
        (\/ tpc[t] = "wait" /\ iter[t] = 0
         \/ tpc[t] \in {"clear", "submit"} /\ iter[t] = 1)
            => inited = FALSE

\* C16: a call of adjustGammaTableForGba writes exactly 256 words to the
\* index-implicit register, the k-th of them the entry for index k - 1, and
\* every word is v<<16 | v<<8 | v for a v in 0..255, whatever the gamma
\* parameters are: v is the rounded level of that index clamped to 0..255.
C16_GammaTableWrites ==
    /\ Len(lut) = lutWrites
    /\ lutWrites <= 256
    /\ mpc = "border" => Len(lut) = 256
    /\ \A k \in 1..Len(lut) :
          LET v == lut[k] % 256
              x == RoundedLevel(gammaCfg, k - 1, lroundNonFinite)
          IN  /\ v \in 0..255
              /\ lut[k] = v * 65536 + v * 256 + v
              /\ v = IF x < 0 THEN 0 ELSE IF x > 255 THEN 255 ELSE x

C16_Witness ==
    /\ mpc = "border" /\ Len(lut) = 256
    /\ gammaCfg.contrast = 2 /\ gammaCfg.brightness255 = -64
    /\ lut[1] = 0 /\ lut[101] = 136 * 65793 /\ lut[256] = 16777215

\* C17 as stated: OAF_videoInit has tried to read the border exactly when the
\* scaler mode is 0 or 1; a successful read is followed by exactly one
\* border transfer, a failed one by none, and Init returns the event.
C17_BorderInNativeModes ==
    mpc = "running" =>
        /\ (borderRes # "none") <=> (scaler < 2)
        /\ borderXfers = (IF borderRes = "ok" THEN 1 ELSE 0)
        /\ evAlive[nInits]

\* C17 as amended: OAF_videoInit has tried to read the border exactly when
\* the scaler mode is 0; a successful read is followed by exactly one border
\* transfer, completed before Init returns, a failed one by none, and Init
\* returns the event in both cases.
C17_BorderInModeZeroOnly ==
    mpc = "running" =>
        /\ (borderRes # "none") <=> (scaler = 0)
        /\ borderXfers = (IF borderRes = "ok" THEN 1 ELSE 0)
        /\ \A j \in ppf : j.ctx # InitCtx
        /\ evAlive[nInits]

C17_Witness ==
    /\ mpc = "running" /\ scaler = 0 /\ evAlive[nInits]
    /\ borderRes = "failed" /\ borderXfers = 0 /\ nInits = 2

\* C18: a task takes the steps of an iteration in one fixed order (submit
\* the list, wait for the command processor, start the transfer into the
\* non-visible buffer, wait for the transfer, swap, sample the keys), each
\* wait ending only when the operation it waits for is complete; a task never
\* has two of its own hardware operations in flight; and in the serializer
\* the file write starts only when the header has been copied and the
\* screenshot transfer is complete.
TaskOrder ==
    { <<"wait", "clear">>, <<"clear", "submit">>, <<"submit", "waitP3D">>,
      <<"waitP3D", "transfer">>, <<"transfer", "waitPPF">>,
      <<"waitPPF", "swap">>, <<"swap", "keys">>, <<"keys", "trigger">>,
      <<"trigger", "wait">>, <<"trigger", "d_stop">>, <<"d_stop", "d_xfer">>,
      <<"d_xfer", "d_memcpy">>, <<"d_memcpy", "d_waitPPF">>,
      <<"d_waitPPF", "d_write">>, <<"d_write", "d_writing">>,
      <<"d_writing", "d_start">>, <<"d_start", "d_ret">>,
      <<"d_ret", "wait">>,
      <<"wait", "terminated">>, <<"none", "wait">> }

TaskOpsInFlight(t) ==
    Cardinality({ j \in ppf : j.ctx = TaskCtx(t) })
        + (IF TaskCtx(t) \in p3d THEN 1 ELSE 0)

C18_StepsInOrder ==
    /\ [][\A t \in Tasks :
             tpc'[t] # tpc[t] => <<tpc[t], tpc'[t]>> \in TaskOrder]_vars
    /\ [][\A j \in ppf' \ ppf :
             j.ctx[1] = "task" => j.buf = GFX_getBuffer /\ j.acc = "w"]_vars
    /\ [](\A t \in Tasks :
             /\ TaskOpsInFlight(t) <= 1
             /\ tpc[t] \in {"transfer", "waitPPF", "swap", "keys", "trigger"}
                   => TaskCtx(t) \notin p3d
             /\ tpc[t] \in {"swap", "keys", "trigger", "d_stop", "d_xfer",
                            "d_write", "d_writing", "d_start", "d_ret"}
                   => TaskOpsInFlight(t) = 0)

C18_Witness ==
    \E t \in Tasks :
        /\ tpc[t] = "d_start" /\ scaler = 2 /\ file[t].hdr = bmpHeaders
        /\ file[t].hdr.width = 360 /\ nSwaps = 2 /\ TaskOpsInFlight(t) = 0

\* C19: the transfer engine is never driven by two contexts at once: a border
\* transfer issued by OAF_videoInit and a transfer issued by a task are never
\* in flight together.
C19_OneContextDrivesPPF ==
    ~ (/\ \E j \in ppf : j.ctx = InitCtx
       /\ \E j \in ppf : j.ctx[1] = "task")

\* C20: once OAF_videoExit has deinitialised the capture unit, no task calls
\* LGYCAP_stop or LGYCAP_start on it.
C20_NoCaptureCallsAfterDeinit ==
    [][\A t \in Tasks :
          (nInits > 0 /\ ~capInited /\ tpc[t] \in {"d_stop", "d_start"})
              => tpc'[t] = tpc[t]]_vars

====
